---- MODULE Spec2Model ----
(***************************************************************************)
(* Model of the transaction ledger: ClientBalance (models.rs), Accountant  *)
(* (processor.rs) and Engine::run (ledger.rs).                             *)
(*                                                                         *)
(* Decimal values are modelled as integers whose magnitude is limited by   *)
(* DecMax (standing for Decimal::MAX); checked_add / checked_sub fail      *)
(* beyond it.  Amount texts are sequences of characters, parsed by         *)
(* ParseDecimal.                                                           *)
(***************************************************************************)
EXTENDS Integers, Sequences, FiniteSets, TLC

\* ------------------------------------------------------------------ bounds
\* Number of records the reader delivers at most in one run.
MaxRecords == 3
\* Largest magnitude a Decimal holds in the model.
DecMax == 2

ClientIds == {1, 2}
TxIds == {1, 2}
TransactionType == {"Deposit", "Withdrawal", "Dispute", "Resolve", "Chargeback"}
\* Amount column of a deposit or withdrawal record: empty, negative, positive.
AmountTexts == {<<>>, <<"-", "1">>, <<"1">>, <<"2">>}
\* Amount column of a dispute, resolve or chargeback record: empty as the input
\* format has it, or filled in.
RefAmountTexts == {<<>>, <<"1">>}

\* Transaction { tx, client, amount, type_ }
Transaction ==
    [tx : TxIds, client : ClientIds, amount : AmountTexts, type_ : {"Deposit", "Withdrawal"}]
    \cup [tx : TxIds, client : ClientIds, amount : RefAmountTexts,
          type_ : {"Dispute", "Resolve", "Chargeback"}]
NoTransaction == [tx |-> 0, client |-> 0, amount |-> <<>>, type_ |-> "None"]

VARIABLES
    clients,                    \* Accountant.clients: client id -> ClientBalance
    transactions,               \* Accountant.transactions: tx id -> Transaction
    transaction_in_historical,  \* Accountant.transaction_in_historical
    transactions_rejected,      \* Accountant.transactions_rejected
    pc,                         \* Engine::run: "run" (in the loop), "failed" (returned Err), "done" (returned Ok)
    nread,                      \* records the reader has delivered
    tx,                         \* the record handed to the last apply_bookkeeping call
    result,                     \* what the last call of run's body returned
    dispatch,                   \* what update_client_balance returned in the last apply_bookkeeping
    output                      \* records written to the writer

vars == <<clients, transactions, transaction_in_historical, transactions_rejected,
          pc, nread, tx, result, dispatch, output>>

\* ------------------------------------------------------------ Decimal
Some(v) == [ok |-> TRUE, val |-> v]
None == [ok |-> FALSE, val |-> 0]

ZERO == 0

DigitChars == <<"0", "1", "2", "3", "4", "5", "6", "7", "8", "9">>
IsDigit(ch) == \E i \in 1..10 : DigitChars[i] = ch
DigitVal(ch) == (CHOOSE i \in 1..10 : DigitChars[i] = ch) - 1

RECURSIVE DigitsValue(_)
DigitsValue(s) ==
    IF s = <<>> THEN 0
    ELSE 10 * DigitsValue(SubSeq(s, 1, Len(s) - 1)) + DigitVal(s[Len(s)])

\* amount.parse::<Decimal>(): optional sign, then one or more digits; anything
\* else, or a magnitude the type cannot hold, is an error.
ParseDecimal(s) ==
    IF s = <<>> THEN None
    ELSE LET signed == s[1] \in {"-", "+"}
             body == IF signed THEN Tail(s) ELSE s
         IN  IF body = <<>> \/ (\E i \in 1..Len(body) : ~IsDigit(body[i])) THEN None
             ELSE LET m == DigitsValue(body)
                  IN  IF m > DecMax THEN None
                      ELSE Some(IF s[1] = "-" THEN 0 - m ELSE m)

checked_add(a, b) ==
    IF a + b > DecMax \/ a + b < 0 - DecMax THEN None ELSE Some(a + b)

checked_sub(a, b) ==
    IF a - b > DecMax \/ a - b < 0 - DecMax THEN None ELSE Some(a - b)

RECURSIVE NatDigits(_)
NatDigits(n) ==
    IF n < 10 THEN <<DigitChars[n + 1]>>
    ELSE NatDigits(n \div 10) \o <<DigitChars[(n % 10) + 1]>>

\* format!("{x:.4}")
round_four_decimals(x) ==
    (IF x < 0 THEN <<"-">> ELSE <<>>)
        \o NatDigits(IF x < 0 THEN 0 - x ELSE x)
        \o <<".", "0", "0", "0", "0">>

\* ------------------------------------------------------- ClientBalance
ClientBalanceNew(client) ==
    [client |-> client, available |-> 0, held |-> 0, total |-> 0, locked |-> FALSE]

Ok(b) == [err |-> "Ok", bal |-> b]
Err(e, b) == [err |-> e, bal |-> b]

\* The lock check left out.
validate_is_unlocked_skipped(self) == TRUE

validate_is_unlocked(self) == ~self.locked

deposit(self, amount) ==
    IF ~validate_is_unlocked(self) THEN Err("AccountLocked", self)
    ELSE LET p == ParseDecimal(amount) IN
    IF ~p.ok THEN Err("ParseError", self)
    ELSE LET available == checked_add(self.available, p.val) IN
    IF ~available.ok THEN Err("ValueOverflow", self)
    ELSE LET s1 == [self EXCEPT !.available = available.val]
             total == checked_add(s1.total, p.val) IN
    IF ~total.ok THEN Err("ValueOverflow", s1)
    ELSE Ok([s1 EXCEPT !.total = total.val])

\* The check of the new available balance left out.
withdraw_total_checked_only(self, amount) ==
    IF ~validate_is_unlocked(self) THEN Err("AccountLocked", self)
    ELSE LET p == ParseDecimal(amount) IN
    IF ~p.ok THEN Err("ParseError", self)
    ELSE LET available == checked_sub(self.available, p.val) IN
    IF ~available.ok THEN Err("InsufficientFunds", self)
    ELSE LET total == checked_sub(self.total, p.val) IN
    IF ~total.ok THEN Err("InsufficientFunds", self)
    ELSE IF total.val < ZERO THEN Err("InsufficientFunds", self)
    ELSE Ok([self EXCEPT !.available = available.val, !.total = total.val])

withdraw(self, amount) ==
    IF ~validate_is_unlocked(self) THEN Err("AccountLocked", self)
    ELSE LET p == ParseDecimal(amount) IN
    IF ~p.ok THEN Err("ParseError", self)
    ELSE LET available == checked_sub(self.available, p.val) IN
    IF ~available.ok THEN Err("InsufficientFunds", self)
    ELSE LET total == checked_sub(self.total, p.val) IN
    IF ~total.ok THEN Err("InsufficientFunds", self)
    ELSE IF total.val < ZERO THEN Err("InsufficientFunds", self)
    ELSE IF available.val < ZERO THEN Err("InsufficientFunds", self)
    ELSE Ok([self EXCEPT !.available = available.val, !.total = total.val])

dispute(self, amount) ==
    IF ~validate_is_unlocked(self) THEN Err("AccountLocked", self)
    ELSE LET p == ParseDecimal(amount) IN
    IF ~p.ok THEN Err("ParseError", self)
    ELSE LET available == checked_sub(self.available, p.val) IN
    IF ~available.ok THEN Err("InsufficientFunds", self)
    ELSE IF available.val < ZERO THEN Err("InsufficientFunds", self)
    ELSE LET s1 == [self EXCEPT !.available = available.val]
             held == checked_add(s1.held, p.val) IN
    IF ~held.ok THEN Err("ValueOverflow", s1)
    ELSE Ok([s1 EXCEPT !.held = held.val])

\* The funds released to available and kept in held as well.
resolve_keeping_held(self, amount) ==
    IF ~validate_is_unlocked(self) THEN Err("AccountLocked", self)
    ELSE LET p == ParseDecimal(amount) IN
    IF ~p.ok THEN Err("ParseError", self)
    ELSE LET held == checked_sub(self.held, p.val) IN
    IF ~held.ok THEN Err("InsufficientFunds", self)
    ELSE IF held.val < 0 THEN Err("InsufficientFunds", self)
    ELSE LET available == checked_add(self.available, p.val) IN
    IF ~available.ok THEN Err("ValueOverflow", self)
    ELSE Ok([self EXCEPT !.available = available.val])

resolve(self, amount) ==
    IF ~validate_is_unlocked(self) THEN Err("AccountLocked", self)
    ELSE LET p == ParseDecimal(amount) IN
    IF ~p.ok THEN Err("ParseError", self)
    ELSE LET held == checked_sub(self.held, p.val) IN
    IF ~held.ok THEN Err("InsufficientFunds", self)
    ELSE IF held.val < 0 THEN Err("InsufficientFunds", self)
    ELSE LET s1 == [self EXCEPT !.held = held.val]
             available == checked_add(s1.available, p.val) IN
    IF ~available.ok THEN Err("ValueOverflow", s1)
    ELSE Ok([s1 EXCEPT !.available = available.val])

\* The account left unlocked.
chargeback_without_lock(self, amount) ==
    IF ~validate_is_unlocked(self) THEN Err("AccountLocked", self)
    ELSE LET p == ParseDecimal(amount) IN
    IF ~p.ok THEN Err("ParseError", self)
    ELSE LET held == checked_sub(self.held, p.val) IN
    IF ~held.ok THEN Err("InsufficientFunds", self)
    ELSE LET total == checked_sub(self.total, p.val) IN
    IF ~total.ok THEN Err("InsufficientFunds", self)
    ELSE IF held.val < 0 THEN Err("InsufficientFunds", self)
    ELSE IF total.val < 0 THEN Err("InsufficientFunds", self)
    ELSE Ok([self EXCEPT !.held = held.val, !.total = total.val])

chargeback(self, amount) ==
    IF ~validate_is_unlocked(self) THEN Err("AccountLocked", self)
    ELSE LET p == ParseDecimal(amount) IN
    IF ~p.ok THEN Err("ParseError", self)
    ELSE LET held == checked_sub(self.held, p.val) IN
    IF ~held.ok THEN Err("InsufficientFunds", self)
    ELSE LET total == checked_sub(self.total, p.val) IN
    IF ~total.ok THEN Err("InsufficientFunds", self)
    ELSE IF held.val < 0 THEN Err("InsufficientFunds", self)
    ELSE IF total.val < 0 THEN Err("InsufficientFunds", self)
    ELSE Ok([self EXCEPT !.held = held.val, !.total = total.val, !.locked = TRUE])

\* ---------------------------------------------------------- Accountant
IsDepositOrWithdrawal(t) == t.type_ \in {"Deposit", "Withdrawal"}

\* A Dispute refused while the client has funds held.
update_client_balance_gated(txs, client, t) ==
    CASE t.type_ = "Deposit" -> deposit(client, t.amount)
      [] t.type_ = "Withdrawal" -> withdraw(client, t.amount)
      [] t.type_ = "Dispute" ->
            IF t.tx \notin DOMAIN txs THEN Err("TxNotFound", client)
            ELSE IF client.held # 0 THEN Err("AlreadyDisputed", client)
            ELSE dispute(client, txs[t.tx].amount)
      [] t.type_ = "Resolve" ->
            IF t.tx \notin DOMAIN txs THEN Err("TxNotFound", client)
            ELSE resolve(client, txs[t.tx].amount)
      [] t.type_ = "Chargeback" ->
            IF t.tx \notin DOMAIN txs THEN Err("TxNotFound", client)
            ELSE chargeback(client, txs[t.tx].amount)

\* Accountant::update_client_balance: the amount of a dispute-family record
\* is read from the history entry stored under the record's id.
update_client_balance(txs, client, t) ==
    CASE t.type_ = "Deposit" -> deposit(client, t.amount)
      [] t.type_ = "Withdrawal" -> withdraw(client, t.amount)
      [] t.type_ = "Dispute" ->
            IF t.tx \notin DOMAIN txs THEN Err("TxNotFound", client)
            ELSE dispute(client, txs[t.tx].amount)
      [] t.type_ = "Resolve" ->
            IF t.tx \notin DOMAIN txs THEN Err("TxNotFound", client)
            ELSE resolve(client, txs[t.tx].amount)
      [] t.type_ = "Chargeback" ->
            IF t.tx \notin DOMAIN txs THEN Err("TxNotFound", client)
            ELSE chargeback(client, txs[t.tx].amount)

\* An occupied entry fails the record whatever its type.
history_entry_any_type(txs, hist, t) ==
    IF t.tx \notin DOMAIN txs
    THEN [err |-> "Ok", transactions |-> txs @@ (t.tx :> t), historical |-> Append(hist, t.tx)]
    ELSE [err |-> "TxDuplicated", transactions |-> txs, historical |-> hist]

\* The record stored over an occupied entry (insert instead of entry).
history_entry_overwritten(txs, hist, t) ==
    IF t.tx \notin DOMAIN txs
    THEN [err |-> "Ok", transactions |-> txs @@ (t.tx :> t), historical |-> Append(hist, t.tx)]
    ELSE IF IsDepositOrWithdrawal(t)
         THEN [err |-> "TxDuplicated", transactions |-> txs, historical |-> hist]
         ELSE [err |-> "Ok", transactions |-> [txs EXCEPT ![t.tx] = t], historical |-> hist]

\* A vacant entry filled by a Deposit or Withdrawal only.
history_entry_deposits_and_withdrawals_only(txs, hist, t) ==
    IF t.tx \notin DOMAIN txs
    THEN IF IsDepositOrWithdrawal(t)
         THEN [err |-> "Ok", transactions |-> txs @@ (t.tx :> t), historical |-> Append(hist, t.tx)]
         ELSE [err |-> "Ok", transactions |-> txs, historical |-> hist]
    ELSE IF IsDepositOrWithdrawal(t)
         THEN [err |-> "TxDuplicated", transactions |-> txs, historical |-> hist]
         ELSE [err |-> "Ok", transactions |-> txs, historical |-> hist]

\* The match on self.transactions.entry(transaction_id): a vacant entry is
\* filled with the record whatever its type; an occupied one fails a Deposit
\* or Withdrawal and lets the other types pass.
history_entry(txs, hist, t) ==
    IF t.tx \notin DOMAIN txs
    THEN [err |-> "Ok", transactions |-> txs @@ (t.tx :> t), historical |-> Append(hist, t.tx)]
    ELSE IF IsDepositOrWithdrawal(t)
         THEN [err |-> "TxDuplicated", transactions |-> txs, historical |-> hist]
         ELSE [err |-> "Ok", transactions |-> txs, historical |-> hist]

\* The entry replaced by a fresh balance on every record.
clients_entry_recreated(cl, txs, t) ==
    LET client_id == t.client
        r == update_client_balance(txs, ClientBalanceNew(client_id), t)
    IN  [err |-> r.err,
         clients |-> [c \in DOMAIN cl \cup {client_id} |->
                        IF c = client_id THEN r.bal ELSE cl[c]]]

\* clients.entry(client_id).and_modify(..).or_insert_with(..): the balance the
\* closure worked on is kept whether the update succeeded or not.
clients_entry(cl, txs, t) ==
    LET client_id == t.client
        client == IF client_id \in DOMAIN cl THEN cl[client_id] ELSE ClientBalanceNew(client_id)
        r == update_client_balance(txs, client, t)
    IN  [err |-> r.err,
         clients |-> [c \in DOMAIN cl \cup {client_id} |->
                        IF c = client_id THEN r.bal ELSE cl[c]]]

\* The id pushed on both arms of the match.
rejected_push_always(rej, err, transaction_id) == Append(rej, transaction_id)

\* Err(_) => transactions_rejected.push(transaction_id)
rejected_push(rej, err, transaction_id) ==
    IF err = "Ok" THEN rej ELSE Append(rej, transaction_id)

\* Accountant::apply_bookkeeping; ret is its return value.
apply_bookkeeping(transaction, ret) ==
    LET h == history_entry(transactions, transaction_in_historical, transaction)
    IN  IF h.err # "Ok"
        THEN /\ ret = h.err
             /\ dispatch' = "None"
             /\ UNCHANGED <<clients, transactions, transaction_in_historical,
                            transactions_rejected>>
        ELSE LET e == clients_entry(clients, h.transactions, transaction)
             IN  /\ ret = "Ok"
                 /\ transactions' = h.transactions
                 /\ transaction_in_historical' = Append(h.historical, transaction.tx)
                 /\ clients' = e.clients
                 /\ transactions_rejected' =
                        rejected_push(transactions_rejected, e.err, transaction.tx)
                 /\ dispatch' = e.err

\* Serialize of ClientBalance
write_record(client) ==
    [client |-> client.client,
     available |-> round_four_decimals(client.available),
     held |-> round_four_decimals(client.held),
     total |-> round_four_decimals(client.total),
     locked |-> client.locked]

\* The orders in which self.clients.values() may iterate.
Orders(S) == {o \in [1..Cardinality(S) -> S] : \A i, j \in DOMAIN o : o[i] = o[j] => i = j}

\* -------------------------------------------------------------- Engine
Init ==
    /\ clients = <<>>
    /\ transactions = <<>>
    /\ transaction_in_historical = <<>>
    /\ transactions_rejected = <<>>
    /\ pc = "run"
    /\ nread = 0
    /\ tx = NoTransaction
    /\ result = "None"
    /\ dispatch = "None"
    /\ output = <<>>

\* The returned error dropped instead of propagated.
run_after_apply_ignored(ret) == "run"

\* What the run does with the value apply_bookkeeping returned (the ? operator).
run_after_apply(ret) == IF ret = "Ok" THEN "run" ELSE "failed"

\* One iteration of the loop of Engine::run on a record that deserializes.
RunApply ==
    /\ pc = "run"
    /\ nread < MaxRecords
    /\ \E transaction \in Transaction, ret \in {"Ok", "TxDuplicated"} :
          /\ apply_bookkeeping(transaction, ret)
          /\ tx' = transaction
          /\ result' = ret
          /\ pc' = run_after_apply(ret)
    /\ nread' = nread + 1
    /\ UNCHANGED output

\* One iteration on a record that does not deserialize: rec? returns.
RunDeserializeError ==
    /\ pc = "run"
    /\ nread < MaxRecords
    /\ nread' = nread + 1
    /\ result' = "DeserializeError"
    /\ dispatch' = "None"
    /\ pc' = "failed"
    /\ UNCHANGED <<clients, transactions, transaction_in_historical,
                   transactions_rejected, tx, output>>

\* End of the stream: Accountant::export writes the clients in some order; the
\* writer may fail on any record, which ends the run with that error.
RunExport ==
    /\ pc = "run"
    /\ \E o \in Orders(DOMAIN clients), k \in 0..Cardinality(DOMAIN clients) :
          /\ output' = [i \in 1..k |-> write_record(clients[o[i]])]
          /\ IF k = Cardinality(DOMAIN clients)
             THEN pc' = "done" /\ result' = "Ok"
             ELSE pc' = "failed" /\ result' = "WriteError"
    /\ dispatch' = "None"
    /\ UNCHANGED <<clients, transactions, transaction_in_historical,
                   transactions_rejected, nread, tx>>

Next == RunApply \/ RunDeserializeError \/ RunExport

Spec == Init /\ [][Next]_vars

\* ------------------------------------------- runs on one client's records
\* Number of records of a run whose records all name client 1.
MaxRecordsOneClient == 4

OneClientTransaction == {t \in Transaction : t.client = 1}

RunApplyOneClient ==
    /\ pc = "run"
    /\ nread < MaxRecordsOneClient
    /\ \E transaction \in OneClientTransaction, ret \in {"Ok", "TxDuplicated"} :
          /\ apply_bookkeeping(transaction, ret)
          /\ tx' = transaction
          /\ result' = ret
          /\ pc' = run_after_apply(ret)
    /\ nread' = nread + 1
    /\ UNCHANGED output

RunDeserializeErrorOneClient ==
    /\ pc = "run"
    /\ nread < MaxRecordsOneClient
    /\ nread' = nread + 1
    /\ result' = "DeserializeError"
    /\ dispatch' = "None"
    /\ pc' = "failed"
    /\ UNCHANGED <<clients, transactions, transaction_in_historical,
                   transactions_rejected, tx, output>>

NextOneClient == RunApplyOneClient \/ RunDeserializeErrorOneClient \/ RunExport

SpecOneClient == Init /\ [][NextOneClient]_vars

\* ------------------------------------------------------ step predicates
\* The step is a call of apply_bookkeeping on the record tx'.
Applied == nread' = nread + 1 /\ result' \in {"Ok", "TxDuplicated"}

\* The call got as far as update_client_balance.
Dispatched == Applied /\ dispatch' # "None"

DispatchFailed == Dispatched /\ dispatch' # "Ok"

\* The balance of client c in the map cl; a client not yet in the map has the
\* balance or_insert_with starts from.
BalanceOf(cl, c) == IF c \in DOMAIN cl THEN cl[c] ELSE ClientBalanceNew(c)

NonNegative(b) == b.available >= 0 /\ b.held >= 0 /\ b.total >= 0

IsReference(t) == t.type_ \in {"Dispute", "Resolve", "Chargeback"}

AccountantUnchanged ==
    UNCHANGED <<clients, transactions, transaction_in_historical, transactions_rejected>>

\* ---------------------------------------------------------------- claims

\* C1: after any sequence of apply_bookkeeping calls every client balance
\* satisfies total == available + held, also when a checked addition
\* overflows in the middle of an operation.
C1_TotalIsAvailablePlusHeld ==
    \A c \in DOMAIN clients :
        clients[c].total = clients[c].available + clients[c].held

\* C2: after every successful deposit, withdraw, dispute, resolve or
\* chargeback none of available, held, total of the client is negative,
\* whatever amount was parsed.
C2_CommittedNonNegative ==
    [][(Dispatched /\ dispatch' = "Ok") => NonNegative(clients'[tx'.client])]_vars

\* C3 (as stated): once a client is locked its balance and lock flag never
\* change again, and every later transaction for that client fails with
\* AccountLocked and is recorded in rejected.
C3_LockedRejectsEveryTransaction ==
    [][\A c \in DOMAIN clients :
          clients[c].locked =>
              /\ c \in DOMAIN clients'
              /\ clients'[c] = clients[c]
              /\ (Applied /\ tx'.client = c) =>
                    /\ dispatch' = "AccountLocked"
                    /\ transactions_rejected' = Append(transactions_rejected, tx'.tx)]_vars

\* C3 (amended): once a client is locked its balance and lock flag never
\* change again; every later transaction for that client fails with
\* AccountLocked and is recorded in rejected, except a Deposit or Withdrawal
\* whose id is already in history, which returns TxDuplicated and changes
\* nothing.
C3_LockedIsTerminal ==
    [][\A c \in DOMAIN clients :
          clients[c].locked =>
              /\ c \in DOMAIN clients'
              /\ clients'[c] = clients[c]
              /\ (Applied /\ tx'.client = c) =>
                    IF IsDepositOrWithdrawal(tx') /\ tx'.tx \in DOMAIN transactions
                    THEN result' = "TxDuplicated" /\ AccountantUnchanged
                    ELSE /\ dispatch' = "AccountLocked"
                         /\ result' = "Ok"
                         /\ transactions_rejected' =
                                Append(transactions_rejected, tx'.tx)]_vars

\* A transaction for a locked client was rejected with AccountLocked.
C3_Witness ==
    /\ dispatch = "AccountLocked"
    /\ tx.client \in DOMAIN clients
    /\ clients[tx.client].locked
    /\ transactions_rejected # <<>>
    /\ transactions_rejected[Len(transactions_rejected)] = tx.tx

\* C4: a balance operation that returns an error leaves available, held,
\* total and locked of the client as they were before the call.
C4_FailedOperationChangesNothing ==
    [][DispatchFailed =>
          BalanceOf(clients', tx'.client) = BalanceOf(clients, tx'.client)]_vars

\* C5: a transaction whose dispatch fails makes apply_bookkeeping return Ok
\* and appends its id to rejected; no other step changes rejected, so the list
\* is, in arrival order, the ids of the transactions whose dispatch failed.
C5_RejectedIsTheFailedDispatches ==
    [][/\ DispatchFailed =>
            /\ result' = "Ok"
            /\ pc' = "run"
            /\ transactions_rejected' = Append(transactions_rejected, tx'.tx)
       /\ ~DispatchFailed => transactions_rejected' = transactions_rejected]_vars

\* A failed dispatch was recorded after an earlier transaction had succeeded.
C5_Witness ==
    /\ dispatch = "InsufficientFunds"
    /\ result = "Ok"
    /\ pc = "run"
    /\ transactions_rejected = <<tx.tx>>
    /\ nread >= 2

\* C6: a Deposit or Withdrawal whose id is already in history returns
\* TxDuplicated and changes no client, history or rejected entry; a Dispute,
\* Resolve or Chargeback never returns TxDuplicated.
C6_DuplicateChangesNothing ==
    [][Applied =>
          /\ (IsDepositOrWithdrawal(tx') /\ tx'.tx \in DOMAIN transactions) =>
                /\ result' = "TxDuplicated"
                /\ AccountantUnchanged
          /\ IsReference(tx') => result' = "Ok"
          /\ result' = "TxDuplicated" => tx'.tx \in DOMAIN transactions]_vars

\* A duplicate deposit or withdrawal ended a run that had applied records.
C6_Witness ==
    /\ result = "TxDuplicated"
    /\ IsDepositOrWithdrawal(tx)
    /\ tx.tx \in DOMAIN transactions
    /\ DOMAIN clients # {}

\* C7: records are applied one at a time while the run is in its loop and
\* nothing has been written; a TxDuplicated or a deserialization error ends
\* the run with nothing written; the export happens in one step that leaves
\* the loop, and no step follows the end of the run.
C7_RunOrder ==
    [][/\ ~AccountantUnchanged =>
            pc = "run" /\ output = <<>> /\ nread' = nread + 1 /\ output' = <<>>
       /\ result' \in {"TxDuplicated", "DeserializeError"} =>
            pc' = "failed" /\ output' = <<>>
       /\ pc # "run" => UNCHANGED vars
       /\ (output' # output \/ pc' = "done") =>
            /\ pc = "run"
            /\ pc' # "run"
            /\ result' \in {"Ok", "WriteError"}
            /\ AccountantUnchanged
            /\ \A i \in DOMAIN output' :
                  \E c \in DOMAIN clients : output'[i] = write_record(clients[c])]_vars

\* A fatal TxDuplicated ended a run after records had been applied, and
\* nothing was exported.
C7_Witness ==
    /\ pc = "failed"
    /\ result = "TxDuplicated"
    /\ nread >= 2
    /\ DOMAIN clients # {}
    /\ output = <<>>

\* C8: a Deposit or Withdrawal whose amount does not parse is fatal:
\* apply_bookkeeping returns an error, the run ends, and the id is not
\* recorded as a rejection.
C8_UnparsableAmountIsFatal ==
    [][(Applied /\ IsDepositOrWithdrawal(tx') /\ ~ParseDecimal(tx'.amount).ok) =>
          /\ result' # "Ok"
          /\ pc' = "failed"
          /\ transactions_rejected' = transactions_rejected]_vars

\* C9: a Dispute, Resolve or Chargeback that changes a balance uses the amount
\* of a Deposit or Withdrawal stored earlier in history under its id.
C9_ReferencedAmountIsUsed ==
    [][(Applied /\ IsReference(tx')
          /\ BalanceOf(clients', tx'.client) # BalanceOf(clients, tx'.client)) =>
          /\ tx'.tx \in DOMAIN transactions
          /\ IsDepositOrWithdrawal(transactions[tx'.tx])
          /\ BalanceOf(clients', tx'.client) =
                update_client_balance(transactions, BalanceOf(clients, tx'.client), tx').bal]_vars

\* C10: a Dispute, Resolve or Chargeback whose id is not in history fails at
\* dispatch (with TxNotFound), is recorded in rejected and changes no balance.
C10_UnknownReferenceIsNotFound ==
    [][(Applied /\ IsReference(tx') /\ tx'.tx \notin DOMAIN transactions) =>
          /\ DispatchFailed
          /\ transactions_rejected' = Append(transactions_rejected, tx'.tx)
          /\ \A c \in DOMAIN clients' : clients'[c] = BalanceOf(clients, c)]_vars

\* C11: a Dispute, Resolve or Chargeback whose id is in history under another
\* client than the one on the record is treated as not found: it is rejected
\* and no balance of any client changes.
C11_OtherClientsTransactionIsNotFound ==
    [][(/\ Applied
        /\ IsReference(tx')
        /\ tx'.tx \in DOMAIN transactions
        /\ transactions[tx'.tx].client # tx'.client) =>
          /\ DispatchFailed
          /\ transactions_rejected' = Append(transactions_rejected, tx'.tx)
          /\ \A c \in DOMAIN clients' : clients'[c] = BalanceOf(clients, c)]_vars

\* The amount of the transaction stored under id; 0 when none is stored or its
\* text does not parse.
StoredAmount(id) ==
    IF id \in DOMAIN transactions THEN ParseDecimal(transactions[id].amount).val ELSE 0

\* C12: a successful Dispute immediately followed by a Resolve of the same
\* transaction for the same client: the Resolve succeeds and puts available
\* and held back to their values before the Dispute (the Dispute moved the
\* stored amount from available to held), total and locked as they are.
C12_DisputeResolveRoundTrip ==
    [][(/\ tx.type_ = "Dispute"
        /\ dispatch = "Ok"
        /\ Applied
        /\ tx'.type_ = "Resolve"
        /\ tx'.tx = tx.tx
        /\ tx'.client = tx.client) =>
          /\ dispatch' = "Ok"
          /\ clients'[tx.client] =
                [clients[tx.client] EXCEPT !.available = @ + StoredAmount(tx.tx),
                                           !.held = @ - StoredAmount(tx.tx)]
          /\ ~clients'[tx.client].locked]_vars

\* The balance the operation of the step works on, and the amount handed to
\* it: the record's own for a Deposit or Withdrawal, the one stored in history
\* under the record's id for the other types.
AppliedBalance == BalanceOf(clients, tx'.client)

AppliedAmount ==
    ParseDecimal(IF IsReference(tx') THEN transactions'[tx'.tx].amount ELSE tx'.amount)

\* The step runs the operation of the given type with an amount that parses on
\* an unlocked client.
OperationOnUnlocked(type) ==
    /\ Dispatched
    /\ tx'.type_ = type
    /\ ~AppliedBalance.locked
    /\ AppliedAmount.ok

\* A client's lock flag goes from false to true in the step.
BecomesLocked(c) == clients'[c].locked /\ ~BalanceOf(clients, c).locked

\* C13 (as stated): on an unlocked client chargeback(amount) succeeds exactly
\* when held - amount >= 0 and total - amount >= 0; then held and total go
\* down by amount, available stays and locked becomes true; otherwise nothing
\* changes. Only a successful chargeback sets locked.
C13_ChargebackExactlyWhenCovered ==
    [][/\ OperationOnUnlocked("Chargeback") =>
            LET b == AppliedBalance
                a == AppliedAmount.val
            IN  IF b.held - a >= 0 /\ b.total - a >= 0
                THEN /\ dispatch' = "Ok"
                     /\ clients'[tx'.client] =
                            [b EXCEPT !.held = @ - a, !.total = @ - a, !.locked = TRUE]
                ELSE /\ dispatch' = "InsufficientFunds"
                     /\ clients'[tx'.client] = b
       /\ \A c \in DOMAIN clients' :
            BecomesLocked(c) =>
                Dispatched /\ tx'.type_ = "Chargeback" /\ tx'.client = c /\ dispatch' = "Ok"]_vars

\* C13 (amended): on an unlocked client chargeback(amount) succeeds exactly
\* when neither held - amount nor total - amount overflows and both are >= 0;
\* then held and total go down by amount, available stays and locked becomes
\* true; otherwise it fails with InsufficientFunds and nothing changes. Only a
\* successful chargeback sets locked.
C13_ChargebackExactlyWhenCoveredNoOverflow ==
    [][/\ OperationOnUnlocked("Chargeback") =>
            LET b == AppliedBalance
                a == AppliedAmount.val
                held == checked_sub(b.held, a)
                total == checked_sub(b.total, a)
            IN  IF held.ok /\ total.ok /\ b.held - a >= 0 /\ b.total - a >= 0
                THEN /\ dispatch' = "Ok"
                     /\ clients'[tx'.client] =
                            [b EXCEPT !.held = @ - a, !.total = @ - a, !.locked = TRUE]
                ELSE /\ dispatch' = "InsufficientFunds"
                     /\ clients'[tx'.client] = b
       /\ \A c \in DOMAIN clients' :
            BecomesLocked(c) =>
                Dispatched /\ tx'.type_ = "Chargeback" /\ tx'.client = c /\ dispatch' = "Ok"]_vars

\* A deposit of 2 was disputed and charged back: nothing held, nothing left,
\* the client locked.
C13_Witness ==
    /\ tx.type_ = "Chargeback"
    /\ dispatch = "Ok"
    /\ transactions[tx.tx].type_ = "Deposit"
    /\ transactions[tx.tx].amount = <<"2">>
    /\ clients[tx.client] =
          [client |-> tx.client, available |-> 0, held |-> 0, total |-> 0, locked |-> TRUE]

\* C14 (as stated): on an unlocked client a Withdrawal of amount a succeeds
\* exactly when available - a >= 0 and total - a >= 0, and then takes a from
\* available and total; otherwise it fails with InsufficientFunds, the balance
\* is unchanged, the id is recorded as rejected and the run goes on.
C14_WithdrawExactlyWhenCovered ==
    [][OperationOnUnlocked("Withdrawal") =>
          LET b == AppliedBalance
              a == AppliedAmount.val
          IN  IF b.available - a >= 0 /\ b.total - a >= 0
              THEN /\ dispatch' = "Ok"
                   /\ clients'[tx'.client] =
                          [b EXCEPT !.available = @ - a, !.total = @ - a]
                   /\ transactions_rejected' = transactions_rejected
              ELSE /\ dispatch' = "InsufficientFunds"
                   /\ clients'[tx'.client] = b
                   /\ transactions_rejected' = Append(transactions_rejected, tx'.tx)
                   /\ result' = "Ok"
                   /\ pc' = "run"]_vars

\* C14 (amended): on an unlocked client a Withdrawal of amount a succeeds
\* exactly when neither available - a nor total - a overflows and both are
\* >= 0, and then takes a from available and total; otherwise it fails with
\* InsufficientFunds, the balance is unchanged, the id is recorded as
\* rejected and the run goes on.
C14_WithdrawExactlyWhenCoveredNoOverflow ==
    [][OperationOnUnlocked("Withdrawal") =>
          LET b == AppliedBalance
              a == AppliedAmount.val
              available == checked_sub(b.available, a)
              total == checked_sub(b.total, a)
          IN  IF available.ok /\ total.ok /\ b.available - a >= 0 /\ b.total - a >= 0
              THEN /\ dispatch' = "Ok"
                   /\ clients'[tx'.client] =
                          [b EXCEPT !.available = @ - a, !.total = @ - a]
                   /\ transactions_rejected' = transactions_rejected
              ELSE /\ dispatch' = "InsufficientFunds"
                   /\ clients'[tx'.client] = b
                   /\ transactions_rejected' = Append(transactions_rejected, tx'.tx)
                   /\ result' = "Ok"
                   /\ pc' = "run"]_vars

\* A withdrawal of 2 from a client holding 1 was rejected and the run goes on.
C14_Witness ==
    /\ tx.type_ = "Withdrawal"
    /\ tx.amount = <<"2">>
    /\ dispatch = "InsufficientFunds"
    /\ clients[tx.client].available = 1
    /\ clients[tx.client].total = 1
    /\ transactions_rejected = <<tx.tx>>
    /\ pc = "run"

\* C15, on the amounts for which available - amount is representable: on an
\* unlocked client dispute(amount) succeeds exactly when available - amount
\* >= 0 and then moves amount from available to held, total and locked as they
\* are; otherwise it fails with InsufficientFunds and changes nothing.
C15_DisputeExactlyWhenAvailable ==
    [][(OperationOnUnlocked("Dispute")
          /\ checked_sub(AppliedBalance.available, AppliedAmount.val).ok) =>
          LET b == AppliedBalance
              a == AppliedAmount.val
          IN  IF b.available - a >= 0
              THEN /\ dispatch' = "Ok"
                   /\ clients'[tx'.client] =
                          [b EXCEPT !.available = @ - a, !.held = @ + a]
              ELSE /\ dispatch' = "InsufficientFunds"
                   /\ clients'[tx'.client] = b]_vars

\* C16, on the amounts for which held - amount is representable: on an
\* unlocked client resolve(amount) succeeds exactly when held - amount >= 0
\* and then moves amount from held to available, total and locked as they
\* are; otherwise it fails with InsufficientFunds and changes nothing.
C16_ResolveExactlyWhenHeld ==
    [][(OperationOnUnlocked("Resolve")
          /\ checked_sub(AppliedBalance.held, AppliedAmount.val).ok) =>
          LET b == AppliedBalance
              a == AppliedAmount.val
          IN  IF b.held - a >= 0
              THEN /\ dispatch' = "Ok"
                   /\ clients'[tx'.client] =
                          [b EXCEPT !.held = @ - a, !.available = @ + a]
              ELSE /\ dispatch' = "InsufficientFunds"
                   /\ clients'[tx'.client] = b]_vars

\* C17: the clients map gains an entry exactly when a record that reaches the
\* client lookup names a client not yet in it (also when that record is then
\* rejected); an entry is keyed by its own client id, is never removed, and is
\* changed only by the operation of a record of its client applied to the
\* entry as it is; a completed export writes one record per entry and nothing
\* else, an export the writer fails writes records of distinct entries only.
C17_OneBalancePerClient ==
    [][/\ DOMAIN clients' =
            IF Dispatched THEN DOMAIN clients \cup {tx'.client} ELSE DOMAIN clients
       /\ \A c \in DOMAIN clients' : clients'[c].client = c
       /\ \A c \in DOMAIN clients :
            clients'[c] =
                IF Dispatched /\ tx'.client = c
                THEN update_client_balance(transactions', clients[c], tx').bal
                ELSE clients[c]
       /\ (DispatchFailed /\ tx'.client \notin DOMAIN clients) =>
            clients'[tx'.client] = ClientBalanceNew(tx'.client)
       /\ output' # output =>
            /\ \A i \in DOMAIN output' :
                  \E c \in DOMAIN clients : output'[i] = write_record(clients[c])
            /\ \A i, j \in DOMAIN output' : output'[i] = output'[j] => i = j
       /\ pc' = "done" =>
            /\ Len(output') = Cardinality(DOMAIN clients)
            /\ \A c \in DOMAIN clients :
                  \E i \in DOMAIN output' : output'[i] = write_record(clients[c])]_vars

\* Two clients were exported, one of them with the all-zero balance its only,
\* rejected, record left it with.
C17_Witness ==
    /\ pc = "done"
    /\ Len(output) = 2
    /\ DOMAIN clients = {1, 2}
    /\ clients[2] = ClientBalanceNew(2)
    /\ clients[1].total = 2
    /\ transactions_rejected # <<>>

\* C19: an entry of history is never removed and never replaced: a later
\* record with the same id, of any type, leaves the stored one as it is.
C19_HistoryFirstWriteWins ==
    [][\A id \in DOMAIN transactions :
          id \in DOMAIN transactions' /\ transactions'[id] = transactions[id]]_vars

\* A dispute-family record was applied whose id is stored with another record.
C19_Witness ==
    /\ result = "Ok"
    /\ IsReference(tx)
    /\ tx.tx \in DOMAIN transactions
    /\ IsDepositOrWithdrawal(transactions[tx.tx])
    /\ transactions[tx.tx].amount # tx.amount
    /\ dispatch = "Ok"

\* What the operation of a dispute-family type does to balance b with the
\* amount text amt.
ReferenceOperation(type, b, amt) ==
    CASE type = "Dispute" -> dispute(b, amt)
      [] type = "Resolve" -> resolve(b, amt)
      [] type = "Chargeback" -> chargeback(b, amt)

\* C20 (as stated): the outcome of a Dispute, Resolve or Chargeback is that of
\* the operation on the client's balance with the stored amount, whatever was
\* disputed before; a Dispute is applied whenever available >= amount, a
\* Resolve whenever held >= amount, a Chargeback whenever held and total >=
\* amount.
C20_NotGatedOnDisputeState ==
    [][/\ (Dispatched /\ IsReference(tx')) =>
            LET r == ReferenceOperation(tx'.type_, AppliedBalance,
                                        transactions'[tx'.tx].amount)
            IN  dispatch' = r.err /\ clients'[tx'.client] = r.bal
       /\ (OperationOnUnlocked("Dispute")
             /\ AppliedBalance.available >= AppliedAmount.val) => dispatch' = "Ok"
       /\ (OperationOnUnlocked("Resolve")
             /\ AppliedBalance.held >= AppliedAmount.val) => dispatch' = "Ok"
       /\ (OperationOnUnlocked("Chargeback")
             /\ AppliedBalance.held >= AppliedAmount.val
             /\ AppliedBalance.total >= AppliedAmount.val) => dispatch' = "Ok"]_vars

\* C20 (amended): as stated, each of the three provided the operation's
\* additions and subtractions do not overflow.
C20_NotGatedOnDisputeStateNoOverflow ==
    [][/\ (Dispatched /\ IsReference(tx')) =>
            LET r == ReferenceOperation(tx'.type_, AppliedBalance,
                                        transactions'[tx'.tx].amount)
            IN  dispatch' = r.err /\ clients'[tx'.client] = r.bal
       /\ (OperationOnUnlocked("Dispute")
             /\ AppliedBalance.available >= AppliedAmount.val
             /\ checked_sub(AppliedBalance.available, AppliedAmount.val).ok
             /\ checked_add(AppliedBalance.held, AppliedAmount.val).ok) => dispatch' = "Ok"
       /\ (OperationOnUnlocked("Resolve")
             /\ AppliedBalance.held >= AppliedAmount.val
             /\ checked_sub(AppliedBalance.held, AppliedAmount.val).ok
             /\ checked_add(AppliedBalance.available, AppliedAmount.val).ok) => dispatch' = "Ok"
       /\ (OperationOnUnlocked("Chargeback")
             /\ AppliedBalance.held >= AppliedAmount.val
             /\ AppliedBalance.total >= AppliedAmount.val
             /\ checked_sub(AppliedBalance.held, AppliedAmount.val).ok
             /\ checked_sub(AppliedBalance.total, AppliedAmount.val).ok) => dispatch' = "Ok"]_vars

\* The deposit of 1 stored under the record's id was disputed by the record
\* before this one and is disputed again by this one: both are applied.
C20_Witness ==
    /\ nread = 4
    /\ tx.type_ = "Dispute"
    /\ dispatch = "Ok"
    /\ transactions[tx.tx].type_ = "Deposit"
    /\ transactions[tx.tx].amount = <<"1">>
    /\ clients[tx.client].available = 0
    /\ clients[tx.client].held = 2
    /\ clients[tx.client].total = 2
    /\ transactions_rejected = <<>>
    /\ LET h == transaction_in_historical
       IN  h[Len(h)] = tx.tx /\ h[Len(h) - 1] = tx.tx /\ h[Len(h) - 2] # tx.tx

\* C21: apart from a step that reports an overflow, a successfully applied
\* Deposit adds its amount to the client's total, a Withdrawal or Chargeback
\* takes its amount from it, a Dispute adds its amount to held, a Resolve or
\* Chargeback takes its amount from it, nothing else touches total or held,
\* and a rejected record, a duplicate, a record that does not deserialize and
\* the export leave every total and held as they are. With every balance
\* starting at zero, total and held are the sums the claim names.
C21_Conservation ==
    [][/\ (Dispatched /\ dispatch' # "ValueOverflow") =>
            LET before == AppliedBalance
                after == clients'[tx'.client]
                amount == AppliedAmount.val
                ok == dispatch' = "Ok"
                type == tx'.type_
            IN  /\ after.total - before.total =
                      IF ok /\ type = "Deposit" THEN amount
                      ELSE IF ok /\ type \in {"Withdrawal", "Chargeback"} THEN 0 - amount
                      ELSE 0
                /\ after.held - before.held =
                      IF ok /\ type = "Dispute" THEN amount
                      ELSE IF ok /\ type \in {"Resolve", "Chargeback"} THEN 0 - amount
                      ELSE 0
       /\ Dispatched =>
            /\ DOMAIN clients' = DOMAIN clients \cup {tx'.client}
            /\ \A c \in DOMAIN clients \ {tx'.client} : clients'[c] = clients[c]
       /\ ~Dispatched => clients' = clients]_vars

\* A deposit of 1 and a dispute of it were applied and a withdrawal of more
\* than the balance was rejected in between or before: total is the deposit,
\* held the dispute.
C21_Witness ==
    /\ tx.type_ = "Dispute"
    /\ dispatch = "Ok"
    /\ transactions_rejected = <<2>>
    /\ 2 \in DOMAIN transactions
    /\ transactions[2].type_ = "Withdrawal"
    /\ transactions[2].client = tx.client
    /\ transactions[tx.tx].type_ = "Deposit"
    /\ transactions[tx.tx].client = tx.client
    /\ clients[tx.client].total = 1
    /\ clients[tx.client].held = 1
    /\ clients[tx.client].available = 0

\* C22: a Dispute, Resolve or Chargeback whose id is not in history is stored
\* under that id, whatever its dispatch returns; the stored record stays; and
\* a later Deposit or Withdrawal carrying that id ends the run with
\* TxDuplicated and changes nothing, although the id was never that of a
\* deposit or withdrawal.
C22_ReferenceConsumesItsId ==
    [][/\ (Applied /\ IsReference(tx') /\ tx'.tx \notin DOMAIN transactions) =>
            /\ result' = "Ok"
            /\ tx'.tx \in DOMAIN transactions'
            /\ transactions'[tx'.tx] = tx'
            /\ dispatch' # "None"
       /\ \A id \in DOMAIN transactions :
            IsReference(transactions[id]) =>
                id \in DOMAIN transactions' /\ transactions'[id] = transactions[id]
       /\ (Applied /\ IsDepositOrWithdrawal(tx')
             /\ tx'.tx \in DOMAIN transactions
             /\ IsReference(transactions[tx'.tx])) =>
            /\ result' = "TxDuplicated"
            /\ pc' = "failed"
            /\ AccountantUnchanged]_vars

\* A deposit or withdrawal was refused as a duplicate of an id that only a
\* Dispute, Resolve or Chargeback had carried.
C22_Witness ==
    /\ result = "TxDuplicated"
    /\ pc = "failed"
    /\ IsDepositOrWithdrawal(tx)
    /\ tx.tx \in DOMAIN transactions
    /\ IsReference(transactions[tx.tx])

====
